---- MODULE Spec2Model ----
(***************************************************************************)
(* Workflow execution (WorkflowExecutor over BrowserAutomationEngine) and  *)
(* job scheduling (WorkflowScheduler over the process-wide `schedule`      *)
(* timer list).                                                            *)
(***************************************************************************)
EXTENDS Integers, Sequences, FiniteSets, TLC

\* ------------------------------------------------------------------ bounds
\* Longest workflow (number of steps) a caller passes to execute_workflow.
MaxSteps == 2

\* ------------------------------------------------------------- data model
\* dict.get(...) of a key the dict does not carry.
Absent == "<absent>"

\* Python truthiness of an optional string parameter: `if not url`.
Falsy(v) == v \in {Absent, ""}

\* Execution contexts that can be inside execute_workflow of one executor.
Runs == {1, 2}

\* self.engine = None
NoEngine == 0

\* A timestamp field that has not been set (None, or the key is missing).
NoTime == 0 - 1

MkStep(a, url, sel, text, key, path) ==
    [action |-> a, url |-> url, selector |-> sel, text |-> text,
     key |-> key, path |-> path]

\* The steps callers build workflows from.
StepUniverse ==
    { MkStep("navigate", "https://example.com", Absent, Absent, Absent, Absent),
      MkStep("navigate", Absent, Absent, Absent, Absent, Absent),
      MkStep("type", Absent, "#q", Absent, Absent, Absent),
      MkStep("get_text", Absent, "h1", Absent, Absent, Absent),
      MkStep("screenshot", Absent, Absent, Absent, Absent, "s.png") }

RECURSIVE SeqsUpTo(_, _)
SeqsUpTo(S, n) ==
    IF n = 0 THEN {<<>>}
    ELSE LET shorter == SeqsUpTo(S, n - 1)
         IN  shorter \cup {Append(s, x) : s \in {t \in shorter : Len(t) = n - 1}, x \in S}

Workflows == {[name |-> "T1", steps |-> s] : s \in SeqsUpTo(StepUniverse, MaxSteps)}

NoWorkflow == [name |-> "", steps |-> <<>>]

\* f"text_{n}"
DefaultKey(n) ==
    CASE n = 0 -> "text_0"
      [] n = 1 -> "text_1"
      [] n = 2 -> "text_2"
      [] n = 3 -> "text_3"
      [] OTHER -> "text_n"

\* results["extracted_data"][key] = text, the dict kept as a set of pairs.
DictPut(d, k, v) == {p \in d : p[1] # k} \cup {<<k, v>>}

VARIABLES
    now,          \* the wall clock, datetime.now()
    browser_type, \* WorkflowExecutor.browser_type
    engine,       \* WorkflowExecutor.engine: the engine object it points to
    engines,      \* the BrowserAutomationEngine object each run constructed
    pc,           \* where each run is inside execute_workflow
    wf,           \* the workflow argument of each run
    stepi,        \* the for loop's i: the step about to be executed
    results,      \* the results dict of each run
    calls,        \* history: capability operations each run invoked
    hist,         \* history: how start, each attempted step and close ended
    scheduled_jobs,   \* WorkflowScheduler.scheduled_jobs: job name -> record
    jobs,             \* schedule.jobs: the process-wide list of timer entries
    nextId,           \* identity of the next timer entry object
    running,          \* WorkflowScheduler.running
    scheduler_thread, \* WorkflowScheduler.scheduler_thread
    loop,             \* each loop thread: where it is inside run_scheduler
    admin,            \* the administrative caller: ready, or blocked in join()
    ret,              \* what the last administrative call returned, raised or warned
    disk,             \* the file save_schedule wrote last under schedules/
    faults,           \* the points at which the browser can fail in this run
    peer,             \* scheduled_jobs of a second WorkflowScheduler of the process
    join_on,          \* the thread object stop_scheduler's join() waits for
    checks            \* history: what validate_workflow answered for each context's workflow

execVars == <<browser_type, engine, engines, pc, wf, stepi, results, calls, hist>>
schedVars == <<scheduled_jobs, jobs, nextId, running, scheduler_thread, loop, admin, ret, disk>>
vars == <<now, faults, peer, join_on, checks, execVars, schedVars>>

\* ------------------------------------------------- BrowserAutomationEngine
NewEngine(bt) ==
    [browser_type |-> bt, playwright |-> "unset", playwright_browser |-> "None",
     playwright_page |-> "None", selenium_driver |-> "None"]

\* Every point at which a browser call can raise.
AllFaults ==
    {"raise_start", "raise_launch", "raise_new_page", "raise_driver", "raise_step",
     "raise_page", "raise_browser", "raise_stop", "raise_quit"}

\* The points at which start_browser can raise, and "ok".
StartOutcomes(bt) ==
    {"ok"} \cup
    ((IF bt = "playwright" THEN {"raise_start", "raise_launch", "raise_new_page"}
      ELSE {"raise_driver"}) \cap faults)

\* The engine after start_browser ended with outcome o.
start_browser(e, o) ==
    IF e.browser_type = "playwright" THEN
        CASE o = "raise_start" -> e
          [] o = "raise_launch" -> [e EXCEPT !.playwright = "live"]
          [] o = "raise_new_page" ->
                [e EXCEPT !.playwright = "live", !.playwright_browser = "live"]
          [] OTHER ->
                [e EXCEPT !.playwright = "live", !.playwright_browser = "live",
                          !.playwright_page = "live"]
    ELSE IF o = "ok" THEN [e EXCEPT !.selenium_driver = "live"] ELSE e

\* Whether a page operation (goto, click, fill, ...) can succeed on e: the
\* page (driver) object exists and has not been closed.
Usable(e) ==
    IF e.browser_type = "playwright" THEN e.playwright_page = "live"
    ELSE e.selenium_driver = "live"

\* The points at which close_browser can raise on e, and "ok".  A handle that
\* is None is skipped; self.playwright is an attribute only _start_playwright
\* sets, so reading it on an engine whose start() raised is an AttributeError.
CloseOutcomes(e) ==
    IF e.browser_type = "playwright" THEN
        ((IF e.playwright_page # "None" THEN {"raise_page"} ELSE {}) \cap faults)
        \cup ((IF e.playwright_browser # "None" THEN {"raise_browser"} ELSE {}) \cap faults)
        \cup (IF e.playwright = "unset" THEN {"raise_attr"}
              ELSE {"ok"} \cup ({"raise_stop"} \cap faults))
    ELSE {"ok"} \cup ((IF e.selenium_driver # "None" THEN {"raise_quit"} ELSE {}) \cap faults)

\* How a page operation can end on e: it raises on an engine that is not
\* usable, and it can raise on one that is.
StepOutcomes(e) ==
    IF ~Usable(e) THEN {FALSE}
    ELSE {TRUE} \cup (IF "raise_step" \in faults THEN {FALSE} ELSE {})

\* The engine after close_browser ended with outcome o.
close_browser(e, o) ==
    IF e.browser_type = "playwright" THEN
        LET p1 == IF e.playwright_page # "None" /\ o # "raise_page"
                  THEN [e EXCEPT !.playwright_page = "closed"] ELSE e
            p2 == IF e.playwright_browser # "None" /\ o \notin {"raise_page", "raise_browser"}
                  THEN [p1 EXCEPT !.playwright_browser = "closed"] ELSE p1
        IN  IF o = "ok" THEN [p2 EXCEPT !.playwright = "stopped"] ELSE p2
    ELSE IF e.selenium_driver # "None" /\ o = "ok"
         THEN [e EXCEPT !.selenium_driver = "quit"] ELSE e

\* --------------------------------------------------------- WorkflowExecutor
\* The results dict execute_workflow builds on entry.
NewResults(w) ==
    [workflow_name |-> w.name, start_time |-> now, steps_executed |-> 0,
     total_steps |-> Len(w.steps), success |-> TRUE, errors |-> <<>>,
     screenshots |-> <<>>, extracted_data |-> {}, end_time |-> NoTime]

NoResults ==
    [workflow_name |-> "", start_time |-> 0, steps_executed |-> 0,
     total_steps |-> 0, success |-> TRUE, errors |-> <<>>,
     screenshots |-> <<>>, extracted_data |-> {}, end_time |-> NoTime]

\* Mutation of StepConfigError: a parameter is required to be present, not
\* to be non-empty.
StepConfigError_PresenceOnly(step) ==
    CASE step.action = "navigate" ->
            IF step.url = Absent THEN "Navigate action requires 'url' parameter" ELSE Absent
      [] step.action = "click" ->
            IF step.selector = Absent THEN "Click action requires 'selector' parameter" ELSE Absent
      [] step.action = "type" ->
            IF step.selector = Absent \/ step.text = Absent
            THEN "Type action requires 'selector' and 'text' parameters" ELSE Absent
      [] step.action = "wait" ->
            IF step.selector = Absent THEN "Wait action requires 'selector' parameter" ELSE Absent
      [] step.action = "get_text" ->
            IF step.selector = Absent THEN "Get_text action requires 'selector' parameter" ELSE Absent
      [] step.action = "screenshot" -> Absent
      [] OTHER -> "Unknown action"

\* _execute_step's own check of the step, made before any capability call:
\* the ValueError message it raises, or Absent when the step passes.
StepConfigError(step) ==
    CASE step.action = "navigate" ->
            IF Falsy(step.url) THEN "Navigate action requires 'url' parameter" ELSE Absent
      [] step.action = "click" ->
            IF Falsy(step.selector) THEN "Click action requires 'selector' parameter" ELSE Absent
      [] step.action = "type" ->
            IF Falsy(step.selector) \/ Falsy(step.text)
            THEN "Type action requires 'selector' and 'text' parameters" ELSE Absent
      [] step.action = "wait" ->
            IF Falsy(step.selector) THEN "Wait action requires 'selector' parameter" ELSE Absent
      [] step.action = "get_text" ->
            IF Falsy(step.selector) THEN "Get_text action requires 'selector' parameter" ELSE Absent
      [] step.action = "screenshot" -> Absent
      [] OTHER -> "Unknown action"

\* The capability operation a step's action dispatches to.
CapabilityOp(step) ==
    CASE step.action = "navigate" -> "navigate_to"
      [] step.action = "click" -> "click_element"
      [] step.action = "type" -> "type_text"
      [] step.action = "wait" -> "wait_for_element"
      [] step.action = "get_text" -> "get_text"
      [] OTHER -> "take_screenshot"

\* Mutation of StepEffect: a screenshot's path is put in front of the list.
StepEffect_ShotFirst(step, res) ==
    CASE step.action = "get_text" ->
            LET key == IF step.key = Absent
                       THEN DefaultKey(Cardinality(res.extracted_data)) ELSE step.key
            IN  [res EXCEPT !.extracted_data = DictPut(@, key, "text")]
      [] step.action = "screenshot" ->
            LET path == IF step.path = Absent THEN "screenshot_<ts>.png" ELSE step.path
            IN  [res EXCEPT !.screenshots = <<path>> \o @]
      [] OTHER -> res

\* What a step that completed writes into results.
StepEffect(step, res) ==
    CASE step.action = "get_text" ->
            LET key == IF step.key = Absent
                       THEN DefaultKey(Cardinality(res.extracted_data)) ELSE step.key
            IN  [res EXCEPT !.extracted_data = DictPut(@, key, "text")]
      [] step.action = "screenshot" ->
            LET path == IF step.path = Absent THEN "screenshot_<ts>.png" ELSE step.path
            IN  [res EXCEPT !.screenshots = Append(@, path)]
      [] OTHER -> res

NoHist == [start |-> Absent, steps |-> <<>>, close |-> Absent]

\* execute_workflow is entered in context r: the results dict is built.
EnterExecute(r, w) ==
    /\ pc[r] = "idle"
    /\ pc' = [pc EXCEPT ![r] = "init"]
    /\ wf' = [wf EXCEPT ![r] = w]
    /\ results' = [results EXCEPT ![r] = NewResults(w)]
    /\ stepi' = [stepi EXCEPT ![r] = 1]
    /\ calls' = [calls EXCEPT ![r] = <<>>]
    /\ hist' = [hist EXCEPT ![r] = NoHist]
    /\ UNCHANGED <<browser_type, engine, engines>>

\* A direct caller calls execute_workflow(w).
ExecuteWorkflow(r, w) ==
    /\ EnterExecute(r, w)
    /\ UNCHANGED <<now, faults, peer, join_on, checks, schedVars>>

\* self.engine = BrowserAutomationEngine(...); self.engine.start_browser() is
\* called and suspends.
InitializeBrowser(r) ==
    /\ pc[r] = "init"
    /\ engines' = [engines EXCEPT ![r] = NewEngine(browser_type)]
    /\ engine' = r
    /\ calls' = [calls EXCEPT ![r] = Append(@, <<"start_browser", 0, r>>)]
    /\ pc' = [pc EXCEPT ![r] = "starting"]
    /\ UNCHANGED <<now, faults, peer, join_on, checks, browser_type, wf, stepi, results, hist, schedVars>>

\* Mutation of WorkflowFailed: the error is recorded, the flag is left true.
WorkflowFailed_NoFlag(res, msg) ==
    [res EXCEPT !.errors = Append(@, <<"Workflow execution failed", msg>>)]

\* The errors entry and flag of the outer `except Exception`.
WorkflowFailed(res, msg) ==
    [res EXCEPT !.errors = Append(@, <<"Workflow execution failed", msg>>),
                !.success = FALSE]

\* The errors entry and flag of the per-step `except Exception`.
StepFailed(res, i, msg) ==
    [res EXCEPT !.errors = Append(@, <<"Step failed", i, msg>>),
                !.success = FALSE]

\* start_browser returns or raises; a raise lands in the outer except.
StartBrowserDone(r) ==
    /\ pc[r] = "starting"
    /\ \E o \in StartOutcomes(engines[r].browser_type) :
          /\ engines' = [engines EXCEPT ![r] = start_browser(@, o)]
          /\ hist' = [hist EXCEPT ![r].start = o]
          /\ IF o = "ok"
             THEN /\ pc' = [pc EXCEPT ![r] =
                              IF Len(wf[r].steps) = 0 THEN "finally" ELSE "steps"]
                  /\ UNCHANGED results
             ELSE /\ pc' = [pc EXCEPT ![r] = "finally"]
                  /\ results' = [results EXCEPT ![r] = WorkflowFailed(@, o)]
    /\ UNCHANGED <<now, faults, peer, join_on, checks, browser_type, engine, wf, stepi, calls, schedVars>>

\* The loop after an iteration that completed: next step, or exhausted.
AfterStep(r) == IF stepi[r] = Len(wf[r].steps) THEN "finally" ELSE "steps"

\* Mutation of AfterFailure: the `break` is missing, the loop goes on.
AfterFailure_NoBreak(r) == AfterStep(r)

\* The loop after an iteration that raised: `break`.
AfterFailure(r) == "finally"

\* Mutation of StepCompleted: the counter is not incremented.
StepCompleted_NoCount(step, res) == StepEffect(step, res)

\* `await self._execute_step(step, results)` returned:
\* results["steps_executed"] += 1 on top of what the step wrote.
StepCompleted(step, res) ==
    [StepEffect(step, res) EXCEPT !.steps_executed = @ + 1]

\* One iteration of the for loop: _execute_step(step, results) on self.engine.
ExecuteStep(r) ==
    /\ pc[r] = "steps"
    /\ LET i == stepi[r]
           step == wf[r].steps[i]
           cfg == StepConfigError(step)
       IN  /\ stepi' = [stepi EXCEPT ![r] = i + 1]
           /\ IF cfg # Absent
              THEN \* _execute_step raises before calling the capability
                   /\ results' = [results EXCEPT ![r] = StepFailed(@, i, cfg)]
                   /\ pc' = [pc EXCEPT ![r] = AfterFailure(r)]
                   /\ hist' = [hist EXCEPT ![r].steps = Append(@, "fail")]
                   /\ UNCHANGED calls
              ELSE /\ calls' = [calls EXCEPT ![r] =
                                  Append(@, <<CapabilityOp(step), i, engine>>)]
                   /\ \E ok \in StepOutcomes(engines[engine]) :
                         IF ok
                         THEN /\ results' = [results EXCEPT ![r] = StepCompleted(step, @)]
                              /\ pc' = [pc EXCEPT ![r] = AfterStep(r)]
                              /\ hist' = [hist EXCEPT ![r].steps = Append(@, "ok")]
                         ELSE /\ results' = [results EXCEPT ![r] =
                                     StepFailed(@, i, "capability")]
                              /\ pc' = [pc EXCEPT ![r] = AfterFailure(r)]
                              /\ hist' = [hist EXCEPT ![r].steps = Append(@, "fail")]
    /\ UNCHANGED <<now, faults, peer, join_on, checks, browser_type, engine, engines, wf, schedVars>>

\* The await execute_workflow is suspended in is interrupted: CancelledError
\* (the task is cancelled) or KeyboardInterrupt is raised out of it.  Neither
\* is an Exception, so no except clause of execute_workflow takes it and
\* control goes to the finally block with results as they are.
Interrupted(r) ==
    /\ \/ /\ pc[r] = "starting"
          /\ engines[r].browser_type = "playwright"
          /\ \E o \in {"raise_start", "raise_launch", "raise_new_page"} :
                engines' = [engines EXCEPT ![r] = start_browser(@, o)]
          /\ hist' = [hist EXCEPT ![r].start = "interrupted"]
          /\ UNCHANGED <<stepi, calls>>
       \/ /\ pc[r] = "steps"
          /\ StepConfigError(wf[r].steps[stepi[r]]) = Absent
          /\ Usable(engines[engine])
          /\ engines[engine].browser_type = "playwright"
          /\ calls' = [calls EXCEPT ![r] =
                 Append(@, <<CapabilityOp(wf[r].steps[stepi[r]]), stepi[r], engine>>)]
          /\ stepi' = [stepi EXCEPT ![r] = @ + 1]
          /\ hist' = [hist EXCEPT ![r].steps = Append(@, "interrupted")]
          /\ UNCHANGED engines
    /\ pc' = [pc EXCEPT ![r] = "finally"]
    /\ UNCHANGED <<now, faults, peer, join_on, checks, browser_type, engine, wf, results, schedVars>>

\* Mutation of ShouldClose: the session is released on the success path only.
ShouldClose_OnSuccess(r) == engine # NoEngine /\ results[r].success

\* `if self.engine:` of the finally block.
ShouldClose(r) == engine # NoEngine

\* The finally block: close_browser on self.engine, then end_time and return.
\* An exception of close_browser leaves the finally block before the return.
Finally(r) ==
    /\ pc[r] = "finally"
    /\ IF ShouldClose(r)
       THEN /\ calls' = [calls EXCEPT ![r] = Append(@, <<"close_browser", 0, engine>>)]
            /\ \E o \in CloseOutcomes(engines[engine]) :
                  /\ engines' = [engines EXCEPT ![engine] = close_browser(@, o)]
                  /\ hist' = [hist EXCEPT ![r].close = o]
                  /\ IF o = "ok"
                     THEN /\ results' = [results EXCEPT ![r].end_time = now]
                          /\ pc' = [pc EXCEPT ![r] = "returned"]
                     ELSE /\ pc' = [pc EXCEPT ![r] = "raised"]
                          /\ UNCHANGED results
       ELSE /\ results' = [results EXCEPT ![r].end_time = now]
            /\ pc' = [pc EXCEPT ![r] = "returned"]
            /\ UNCHANGED <<calls, engines, hist>>
    /\ UNCHANGED <<now, faults, peer, join_on, checks, browser_type, engine, wf, stepi, schedVars>>

\* The caller of execute_workflow takes the outcome: the results dict and
\* the frame of context r are gone.
LeaveExecute(r) ==
    /\ pc[r] \in {"returned", "raised"}
    /\ pc' = [pc EXCEPT ![r] = "idle"]
    /\ wf' = [wf EXCEPT ![r] = NoWorkflow]
    /\ results' = [results EXCEPT ![r] = NoResults]
    /\ stepi' = [stepi EXCEPT ![r] = 1]
    /\ calls' = [calls EXCEPT ![r] = <<>>]
    /\ hist' = [hist EXCEPT ![r] = NoHist]
    /\ UNCHANGED <<browser_type, engine, engines>>

\* A direct caller takes the outcome; the context can call again.
Complete(r) ==
    /\ LeaveExecute(r)
    /\ UNCHANGED <<now, faults, peer, join_on, checks, schedVars>>

\* ------------------------------------- GeminiWorkflowGenerator.validate_workflow
\* A workflow as it comes from the generator or from a file: name,
\* description and steps can be missing (Absent); steps_is tells what kind
\* of value the "steps" key holds, and steps are its items when it is a list.
MkWorkflow(name, description, steps_is, steps) ==
    [name |-> name, description |-> description, steps_is |-> steps_is, steps |-> steps]

\* valid_actions
ValidActions == {"navigate", "click", "type", "wait", "get_text", "screenshot"}

NoError == <<>>

\* The first logger.error of the loop over the steps from position i on
\* (messages count from 0), or NoError.  The branches are the if/elif chain
\* of the source: "type" is taken by the selector branch, so the branch
\* that looks for its text is never entered.
RECURSIVE StepsError(_, _)
StepsError(steps, i) ==
    IF i > Len(steps) THEN NoError
    ELSE LET step == steps[i]
             next == StepsError(steps, i + 1)
         IN  IF step.action = Absent THEN <<"missing action", i - 1>>
             ELSE IF step.action \notin ValidActions THEN <<"invalid action", i - 1>>
             ELSE IF step.action = "navigate"
             THEN IF step.url = Absent THEN <<"missing url", i - 1>> ELSE next
             ELSE IF step.action \in {"click", "type", "wait", "get_text"}
             THEN IF step.selector = Absent THEN <<"missing selector", i - 1>> ELSE next
             ELSE IF step.action = "type"
             THEN IF step.text = Absent THEN <<"missing text", i - 1>> ELSE next
             ELSE next

\* The first error validate_workflow logs for w, or NoError.
FirstError(w) ==
    IF w.name = Absent THEN <<"Missing required field: name", 0>>
    ELSE IF w.description = Absent THEN <<"Missing required field: description", 0>>
    ELSE IF w.steps_is = Absent THEN <<"Missing required field: steps", 0>>
    ELSE IF w.steps_is # "list" THEN <<"Steps must be a list", 0>>
    ELSE StepsError(w.steps, 1)

\* validate_workflow(workflow) -> bool
validate_workflow(w) == FirstError(w) = NoError

\* Mutation of ValidationOutcome: once a workflow has been looked at, later
\* validations of it pass.
ValidationOutcome_Cached(r, w) ==
    IF checks[r] # <<>> THEN <<TRUE, NoError>> ELSE <<validate_workflow(w), FirstError(w)>>

\* What a call of validate_workflow(w) made in context r answers and logs.
ValidationOutcome(r, w) == <<validate_workflow(w), FirstError(w)>>

\* Validations of one workflow that are followed.
MaxValidations == 3

\* generate_and_execute in context r, the generator having produced w:
\* validate_workflow, then ValueError or execute_workflow.
GenerateAndExecute(r, w) ==
    /\ pc[r] = "idle"
    /\ checks' = [checks EXCEPT ![r] = <<ValidationOutcome(r, w)>>]
    /\ IF validate_workflow(w)
       THEN EnterExecute(r, w)
       ELSE /\ pc' = [pc EXCEPT ![r] = "invalid"]
            /\ wf' = [wf EXCEPT ![r] = w]
            /\ UNCHANGED <<browser_type, engine, engines, stepi, results, calls, hist>>
    /\ UNCHANGED <<now, faults, peer, join_on, schedVars>>

\* validate_workflow is called once more on the workflow context r holds.
ValidateAgain(r) ==
    /\ pc[r] # "idle"
    /\ Len(checks[r]) < MaxValidations
    /\ checks' = [checks EXCEPT ![r] = Append(@, ValidationOutcome(r, wf[r]))]
    /\ UNCHANGED <<now, faults, peer, join_on, execVars, schedVars>>

\* generate_and_execute raised "Generated workflow is invalid" to its caller.
RejectDone(r) ==
    /\ pc[r] = "invalid"
    /\ pc' = [pc EXCEPT ![r] = "idle"]
    /\ wf' = [wf EXCEPT ![r] = NoWorkflow]
    /\ checks' = [checks EXCEPT ![r] = <<>>]
    /\ UNCHANGED <<now, faults, peer, join_on, browser_type, engine, engines, stepi, results, calls, hist,
                   schedVars>>

\* generate_and_execute returns the results, or lets execute_workflow's
\* exception through.
GenerateDone(r) ==
    /\ LeaveExecute(r)
    /\ checks' = [checks EXCEPT ![r] = <<>>]
    /\ UNCHANGED <<now, faults, peer, join_on, schedVars>>

\* ---------------------------------------------------------------- the clock
\* The calendar, scaled down: seconds in a minute, minutes in an hour, hours
\* in a day.  The clock counts seconds and stops after MaxMinutes minutes.
SecondsPerMinute == 2
MinutesPerHour == 2
HoursPerDay == 2
MaxMinutes == 2

SecondsPerHour == SecondsPerMinute * MinutesPerHour
SecondsPerDay == SecondsPerHour * HoursPerDay
MaxTime == MaxMinutes * SecondsPerMinute

\* The time of day of instant t, and the midnight that opens its day.
TimeOfDay(t) == t % SecondsPerDay
Midnight(t) == t - TimeOfDay(t)

\* now.replace(hour=h, minute=m, second=0, microsecond=0)
Replace(t, h, m) == Midnight(t) + h * SecondsPerHour + m * SecondsPerMinute

\* timedelta(minutes=m), timedelta(days=1)
Minutes(m) == m * SecondsPerMinute

\* A time string is kept as the list of its ':'-separated parts, which is
\* what schedule_time.split(':') returns.
TwoDigits(n) ==
    CASE n = 0 -> "00"
      [] n = 1 -> "01"
      [] n = 2 -> "02"
      [] n = 3 -> "03"
      [] OTHER -> "99"

\* int(part) raised ValueError.
NotInt == 0 - 1

\* int(part)
PyInt(part) ==
    CASE part = "00" -> 0
      [] part = "01" -> 1
      [] part = "02" -> 2
      [] part = "03" -> 3
      [] part = "99" -> 99
      [] OTHER -> NotInt

\* "HH:MM"
HHMM(h, m) == <<TwoDigits(h), TwoDigits(m)>>

\* Mutation of _get_next_run_time: a time already past is not moved to
\* the next day.
_get_next_run_time_NoRollover(schedule_time) ==
    IF /\ Len(schedule_time) = 2
       /\ PyInt(schedule_time[1]) \in 0..(HoursPerDay - 1)
       /\ PyInt(schedule_time[2]) \in 0..(MinutesPerHour - 1)
    THEN Replace(now, PyInt(schedule_time[1]), PyInt(schedule_time[2]))
    ELSE now + SecondsPerDay

\* WorkflowScheduler._get_next_run_time: any exception of the parse (a part
\* that is no number, not exactly two parts, hour or minute out of range)
\* is caught and answered with now + 1 day.
_get_next_run_time(schedule_time) ==
    IF /\ Len(schedule_time) = 2
       /\ PyInt(schedule_time[1]) \in 0..(HoursPerDay - 1)
       /\ PyInt(schedule_time[2]) \in 0..(MinutesPerHour - 1)
    THEN LET next_run == Replace(now, PyInt(schedule_time[1]), PyInt(schedule_time[2]))
         IN  IF next_run <= now THEN next_run + SecondsPerDay ELSE next_run
    ELSE now + SecondsPerDay

\* ------------------------------------------------- the `schedule` timer list
\* Mutation of AtAccepts: only the number of parts is looked at.
AtAccepts_LengthOnly(time_str) == Len(time_str) \in {2, 3}

\* Whether every().day.at(time_str) accepts the string: HH:MM or HH:MM:SS
\* with every field in range; otherwise it raises ScheduleValueError.
AtAccepts(time_str) ==
    /\ Len(time_str) \in {2, 3}
    /\ PyInt(time_str[1]) \in 0..(HoursPerDay - 1)
    /\ PyInt(time_str[2]) \in 0..(MinutesPerHour - 1)
    /\ Len(time_str) = 3 => PyInt(time_str[3]) \in 0..(SecondsPerMinute - 1)

\* The at_time of a daily timer entry, as seconds into the day.
AtTime(time_str) ==
    PyInt(time_str[1]) * SecondsPerHour + PyInt(time_str[2]) * SecondsPerMinute
    + (IF Len(time_str) = 3 THEN PyInt(time_str[3]) ELSE 0)

\* Mutation of TimerNextRun: an interval entry is due at once.
TimerNextRun_Immediate(unit, interval, at_time, t) ==
    IF unit = "minutes" THEN t
    ELSE IF at_time > TimeOfDay(t) THEN Midnight(t) + at_time
         ELSE Midnight(t) + SecondsPerDay + at_time

\* Job._schedule_next_run at instant t: every(n).minutes is due n minutes
\* from t; every().day.at(x) is due at the next x strictly after t.
TimerNextRun(unit, interval, at_time, t) ==
    IF unit = "minutes" THEN t + Minutes(interval)
    ELSE IF at_time > TimeOfDay(t) THEN Midnight(t) + at_time
         ELSE Midnight(t) + SecondsPerDay + at_time

\* Timer entry objects created over the whole run.
MaxTimers == 2

\* A timer entry: schedule.every(...).do(job_function).tag(job_name).  The
\* closure job_function holds job_name and workflow.  created, dispatches and
\* due_scans are history: when the entry was made, how often its
\* job_function was called, and how many scans of run_pending took place at
\* or after created + interval.
NewTimer(id, job_name, workflow, unit, interval, at_time) ==
    [id |-> id, tag |-> job_name, workflow |-> workflow, unit |-> unit,
     interval |-> interval, at_time |-> at_time,
     next_run |-> TimerNextRun(unit, interval, at_time, now),
     created |-> now, dispatches |-> 0, due_scans |-> 0]

\* What run_pending holds of an entry it collected: the entry object and,
\* through job_function, the job name and the workflow.
Closure(timer) == [id |-> timer.id, tag |-> timer.tag, workflow |-> timer.workflow]

NoClosure == [id |-> 0, tag |-> "", workflow |-> NoWorkflow]

\* Job.should_run
ShouldRun(timer) == now >= timer.next_run

\* Positions of the list that are runnable now.
Runnable == {n \in 1..Len(jobs) : ShouldRun(jobs[n])}

\* sorted(runnable_jobs): by next_run, ties in list order.
RECURSIVE SortedByNextRun(_)
SortedByNextRun(S) ==
    IF S = {} THEN <<>>
    ELSE LET first == CHOOSE n \in S : \A k \in S :
                          \/ jobs[n].next_run < jobs[k].next_run
                          \/ (jobs[n].next_run = jobs[k].next_run /\ n <= k)
         IN  <<Closure(jobs[first])>> \o SortedByNextRun(S \ {first})

\* schedule.clear(tag)
ClearTag(tag) == SelectSeq(jobs, LAMBDA j : j.tag # tag)

\* ------------------------------------------------------- WorkflowScheduler
\* A file under schedules/: kind "none" (there is no such file), "garbage"
\* (no JSON text), "list" (JSON, but no object) or "json" (a JSON object:
\* its members, in order, as name and value).  origin is history: the
\* registry save_schedule wrote the file from.
File(kind, entries, origin) == [kind |-> kind, entries |-> entries, origin |-> origin]

\* No schedule file has been written.
NoFile == File("none", <<>>, <<>>)

\* The registry of the second WorkflowScheduler before it has scheduled
\* anything.
NoPeer == <<>>

\* Loop threads; thread t runs its jobs in execution context t.
Threads == Runs

NoThread == 0

NoLoop == [st |-> "none", pending |-> <<>>, cur |-> NoClosure]

\* f"workflow_{n}", f"interval_workflow_{n}"
AutoName(prefix, n) ==
    CASE prefix = "workflow_" /\ n = 1 -> "workflow_1"
      [] prefix = "workflow_" /\ n = 2 -> "workflow_2"
      [] prefix = "workflow_" /\ n = 3 -> "workflow_3"
      [] prefix = "workflow_" -> "workflow_n"
      [] prefix = "interval_workflow_" /\ n = 1 -> "interval_workflow_1"
      [] prefix = "interval_workflow_" /\ n = 2 -> "interval_workflow_2"
      [] prefix = "interval_workflow_" /\ n = 3 -> "interval_workflow_3"
      [] OTHER -> "interval_workflow_n"

Registered == DOMAIN scheduled_jobs

\* self.scheduled_jobs[name] = rec
RegistryPut(name, rec) ==
    [n \in Registered \cup {name} |-> IF n = name THEN rec ELSE scheduled_jobs[n]]

\* del self.scheduled_jobs[name]
RegistryDel(name) == [n \in Registered \ {name} |-> scheduled_jobs[n]]

\* The record schedule_workflow stores.
DailyRecord(workflow, schedule_time, repeat) ==
    [kind |-> "daily", workflow |-> workflow, schedule_time |-> schedule_time,
     interval_minutes |-> 0, repeat |-> repeat, created_at |-> now,
     last_run |-> NoTime, next_run |-> _get_next_run_time(schedule_time),
     last_result |-> NoResults, last_error |-> Absent]

\* The record schedule_interval_workflow stores.
IntervalRecord(workflow, interval_minutes) ==
    [kind |-> "interval", workflow |-> workflow, schedule_time |-> <<>>,
     interval_minutes |-> interval_minutes, repeat |-> TRUE, created_at |-> now,
     last_run |-> NoTime, next_run |-> now + Minutes(interval_minutes),
     last_result |-> NoResults, last_error |-> Absent]

\* schedule_workflow(workflow, schedule_time, job_name, repeat)
schedule_workflow(workflow, schedule_time, job_name, repeat) ==
    /\ admin = "ready"
    /\ nextId <= MaxTimers
    /\ LET name == IF Falsy(job_name)
                   THEN AutoName("workflow_", Cardinality(Registered) + 1) ELSE job_name
       IN  IF AtAccepts(schedule_time)
           THEN /\ jobs' = Append(jobs, NewTimer(nextId, name, workflow, "days", 1,
                                                 AtTime(schedule_time)))
                /\ nextId' = nextId + 1
                /\ scheduled_jobs' = RegistryPut(name, DailyRecord(workflow, schedule_time, repeat))
                /\ ret' = name
           ELSE \* .at() raises before .do(): no timer entry, no record
                /\ ret' = "ScheduleValueError"
                /\ UNCHANGED <<jobs, nextId, scheduled_jobs>>
    /\ UNCHANGED <<now, faults, peer, join_on, checks, execVars, running, scheduler_thread, loop, admin, disk>>

\* schedule_interval_workflow(workflow, interval_minutes, job_name)
schedule_interval_workflow(workflow, interval_minutes, job_name) ==
    /\ admin = "ready"
    /\ nextId <= MaxTimers
    /\ LET name == IF Falsy(job_name)
                   THEN AutoName("interval_workflow_", Cardinality(Registered) + 1)
                   ELSE job_name
       IN  /\ jobs' = Append(jobs, NewTimer(nextId, name, workflow, "minutes",
                                            interval_minutes, 0))
           /\ nextId' = nextId + 1
           /\ scheduled_jobs' = RegistryPut(name, IntervalRecord(workflow, interval_minutes))
           /\ ret' = name
    /\ UNCHANGED <<now, faults, peer, join_on, checks, execVars, running, scheduler_thread, loop, admin, disk>>

\* remove_job(job_name)
remove_job(job_name) ==
    /\ admin = "ready"
    /\ jobs' = ClearTag(job_name)
    /\ scheduled_jobs' = IF job_name \in Registered THEN RegistryDel(job_name)
                         ELSE scheduled_jobs
    /\ ret' = "True"
    /\ UNCHANGED <<now, faults, peer, join_on, checks, execVars, nextId, running, scheduler_thread, loop, admin, disk>>

\* Mutation of AlreadyRunning: start_scheduler does not look at the flag.
AlreadyRunning_Unchecked == FALSE

\* `if self.running:` of start_scheduler.
AlreadyRunning == running

\* The thread objects threading.Thread(...) can return: one that is not
\* alive and that no join() holds on to.
FreeThreads == {t \in Threads : loop[t].st = "none" /\ t # join_on}

\* The body of start_scheduler(), whichever thread calls it.
StartCall ==
    /\ IF AlreadyRunning
       THEN /\ ret' = "already running"
            /\ UNCHANGED <<running, scheduler_thread, loop>>
       ELSE /\ ret' = "None"
            /\ \E t \in FreeThreads :
                  /\ \A u \in FreeThreads : t <= u
                  /\ scheduler_thread' = t
                  /\ loop' = [loop EXCEPT ![t] = [NoLoop EXCEPT !.st = "sleep"]]
            /\ running' = TRUE
    /\ UNCHANGED <<now, faults, peer, join_on, checks, execVars, scheduled_jobs, jobs, nextId, admin, disk>>

\* start_scheduler()
start_scheduler ==
    /\ admin = "ready"
    /\ StartCall

\* start_scheduler() called by another thread while the administrative
\* caller is blocked in stop_scheduler's join().
StartWhileJoining ==
    /\ admin = "joining"
    /\ StartCall

\* stop_scheduler(): the flag is cleared and the caller enters join().
stop_scheduler ==
    /\ admin = "ready"
    /\ running' = FALSE
    /\ admin' = IF scheduler_thread # NoThread THEN "joining" ELSE "ready"
    /\ join_on' = scheduler_thread
    /\ ret' = IF scheduler_thread # NoThread THEN "join" ELSE "None"
    /\ UNCHANGED <<now, faults, peer, checks, execVars, scheduled_jobs, jobs, nextId, scheduler_thread, loop,
                   disk>>

\* Mutation of ThreadExited: join() does not wait.
ThreadExited_NoWait(t) == TRUE

\* Thread t has left run_scheduler.
ThreadExited(t) == loop[t].st = "none"

\* join() returns once the thread has exited; stop_scheduler returns.
JoinReturns ==
    /\ admin = "joining"
    /\ ThreadExited(join_on)
    /\ admin' = "ready"
    /\ join_on' = NoThread
    /\ ret' = "None"
    /\ UNCHANGED <<now, faults, peer, checks, execVars, scheduled_jobs, jobs, nextId, running,
                   scheduler_thread, loop, disk>>

\* History: a scan of run_pending at or after created + interval.
CountScan(timer) ==
    IF timer.unit = "minutes" /\ now >= timer.created + Minutes(timer.interval)
          /\ timer.due_scans < 2
    THEN [timer EXCEPT !.due_scans = @ + 1] ELSE timer

\* History: the job_function of the entry with this id is called.
CountDispatch(id) ==
    [n \in 1..Len(jobs) |->
        IF jobs[n].id = id /\ jobs[n].dispatches < 2
        THEN [jobs[n] EXCEPT !.dispatches = @ + 1] ELSE jobs[n]]

\* One turn of `while self.running:` in run_scheduler after the sleep: the
\* thread ends when the flag is down; otherwise run_pending() collects the
\* runnable entries, sorted, before it calls any of them.
Tick(t) ==
    /\ loop[t].st = "sleep"
    /\ IF ~running
       THEN /\ loop' = [loop EXCEPT ![t] = NoLoop]
            /\ UNCHANGED jobs
       ELSE /\ loop' = [loop EXCEPT ![t] =
                  [st |-> IF Runnable = {} THEN "sleep" ELSE "pending",
                   pending |-> SortedByNextRun(Runnable), cur |-> NoClosure]]
            /\ jobs' = [n \in 1..Len(jobs) |-> CountScan(jobs[n])]
    /\ UNCHANGED <<now, faults, peer, join_on, checks, execVars, scheduled_jobs, nextId, running, scheduler_thread,
                   admin, ret, disk>>

\* run_pending calls the next collected entry: Job.run() calls job_function,
\* which enters asyncio.run(_execute_scheduled_workflow(workflow, job_name))
\* and with it execute_workflow, on the loop thread itself.
Dispatch(t) ==
    /\ loop[t].st = "pending"
    /\ LET timer == Head(loop[t].pending)
       IN  /\ EnterExecute(t, timer.workflow)
           /\ loop' = [loop EXCEPT ![t] =
                  [st |-> "job", pending |-> Tail(loop[t].pending), cur |-> timer]]
           /\ jobs' = CountDispatch(timer.id)
    /\ UNCHANGED <<now, faults, peer, join_on, checks, scheduled_jobs, nextId, running, scheduler_thread, admin,
                   ret, disk>>

\* The rest of _execute_scheduled_workflow once execute_workflow has ended,
\* for the registry as it is now: a returned result is stored with last_run,
\* then save_results runs; an exception of either is stored as last_error.
CompletionUpdate(job_name, outcome, res, saved, error) ==
    IF job_name \notin Registered THEN scheduled_jobs
    ELSE IF outcome = "returned"
         THEN LET rec == [scheduled_jobs[job_name] EXCEPT !.last_run = now,
                                                          !.last_result = res]
              IN  RegistryPut(job_name,
                      IF saved THEN rec ELSE [rec EXCEPT !.last_error = "save_results failed"])
         ELSE RegistryPut(job_name, [scheduled_jobs[job_name] EXCEPT !.last_error = error])

\* Job.run() after job_function returned: _schedule_next_run() on the entry
\* object, from the instant the job ended.
Reschedule(id) ==
    [n \in 1..Len(jobs) |->
        IF jobs[n].id = id
        THEN [jobs[n] EXCEPT !.next_run =
                 TimerNextRun(jobs[n].unit, jobs[n].interval, jobs[n].at_time, now)]
        ELSE jobs[n]]

\* Mutation of RemainingPending: a failed run ends the tick.
RemainingPending_AbortOnFailure(t) ==
    IF pc[t] = "raised" \/ ~results[t].success THEN <<>> ELSE loop[t].pending

\* The collected entries run_pending still has to call when job_function of
\* the current one has returned: job_function lets no exception out.
RemainingPending(t) == loop[t].pending

\* execute_workflow has ended on thread t: _execute_scheduled_workflow
\* finishes, job_function returns (it swallows every exception), the entry is
\* rescheduled and run_pending goes on to the next collected entry.
JobDone(t) ==
    /\ loop[t].st = "job"
    /\ pc[t] \in {"returned", "raised"}
    /\ \E saved \in BOOLEAN :
          /\ pc[t] = "raised" => saved
          /\ scheduled_jobs' = CompletionUpdate(loop[t].cur.tag, pc[t], results[t],
                                                saved, hist[t].close)
    /\ LeaveExecute(t)
    /\ jobs' = Reschedule(loop[t].cur.id)
    /\ loop' = [loop EXCEPT ![t] =
           [st |-> IF RemainingPending(t) = <<>> THEN "sleep" ELSE "pending",
            pending |-> RemainingPending(t), cur |-> NoClosure]]
    /\ UNCHANGED <<now, faults, peer, join_on, checks, nextId, running, scheduler_thread, admin, ret, disk>>

\* ---------------------------------------------- save_schedule, load_schedule
\* datetime.isoformat(): the text written for a datetime.
IsoFormat(t) == <<"iso", t>>

\* Mutation of FileEntry: the repeat flag is not written.
FileEntry_NoRepeat(rec) ==
    IF rec.kind = "interval"
    THEN [workflow |-> rec.workflow, interval_minutes |-> rec.interval_minutes,
          created_at |-> rec.created_at, last_run |-> rec.last_run,
          next_run |-> IsoFormat(rec.next_run),
          last_result |-> rec.last_result, last_error |-> rec.last_error]
    ELSE [workflow |-> rec.workflow, schedule_time |-> rec.schedule_time,
          created_at |-> rec.created_at, last_run |-> rec.last_run,
          next_run |-> IsoFormat(rec.next_run),
          last_result |-> rec.last_result, last_error |-> rec.last_error]

\* What save_schedule writes for one record: job_info.copy() with next_run
\* as text.  A daily record has no interval_minutes key and an interval
\* record no schedule_time key.
FileEntry(rec) ==
    IF rec.kind = "interval"
    THEN [workflow |-> rec.workflow, interval_minutes |-> rec.interval_minutes,
          repeat |-> rec.repeat, created_at |-> rec.created_at, last_run |-> rec.last_run,
          next_run |-> IsoFormat(rec.next_run),
          last_result |-> rec.last_result, last_error |-> rec.last_error]
    ELSE [workflow |-> rec.workflow, schedule_time |-> rec.schedule_time,
          repeat |-> rec.repeat, created_at |-> rec.created_at, last_run |-> rec.last_run,
          next_run |-> IsoFormat(rec.next_run),
          last_result |-> rec.last_result, last_error |-> rec.last_error]

\* The orders in which a dict can hold the keys S.
Orderings(S) ==
    {f \in [1..Cardinality(S) -> S] : \A i, j \in 1..Cardinality(S) : f[i] = f[j] => i = j}

\* save_schedule(): the registry is written, in its order, to a new file.
save_schedule ==
    /\ admin = "ready"
    /\ \E order \in Orderings(Registered) :
          disk' = File("json",
                       [i \in 1..Len(order) |->
                          [name |-> order[i], info |-> FileEntry(scheduled_jobs[order[i]])]],
                       scheduled_jobs)
    /\ ret' = "path"
    /\ UNCHANGED <<now, faults, peer, join_on, checks, execVars, scheduled_jobs, jobs, nextId, running,
                   scheduler_thread, loop, admin>>

\* job_info.get(key, default)
Get(info, key, default) == IF key \in DOMAIN info THEN info[key] ELSE default

\* d[k] = v
Put(d, k, v) == [n \in DOMAIN d \cup {k} |-> IF n = k THEN v ELSE d[n]]

\* Timer entry objects a loop thread still holds after schedule.clear().
HeldIds ==
    UNION {{loop[t].cur.id} \cup {loop[t].pending[i].id : i \in 1..Len(loop[t].pending)} :
           t \in Threads}

\* Identities free for new timer entry objects once the list is cleared.
FreshIds == (1..MaxTimers) \ HeldIds

Min(S) == CHOOSE x \in S : \A y \in S : x <= y

Max(S) == CHOOSE x \in S : \A y \in S : x >= y

\* schedule.clear(); self.scheduled_jobs.clear()
Cleared == [scheduled_jobs |-> <<>>, jobs |-> <<>>, ids |-> FreshIds, ret |-> "None"]

\* The body of load_schedule's loop for one member of the file: the
\* scheduling call it makes, or the exception that ends the load.
LoadEntry(st, e) ==
    IF "workflow" \notin DOMAIN e.info THEN [st EXCEPT !.ret = "KeyError"]
    ELSE IF "interval_minutes" \in DOMAIN e.info
    THEN LET name == IF Falsy(e.name)
                     THEN AutoName("interval_workflow_",
                                   Cardinality(DOMAIN st.scheduled_jobs) + 1)
                     ELSE e.name
         IN  [st EXCEPT
                !.jobs = Append(@, NewTimer(Min(st.ids), name, e.info.workflow, "minutes",
                                            e.info.interval_minutes, 0)),
                !.ids = @ \ {Min(st.ids)},
                !.scheduled_jobs =
                    Put(@, name, IntervalRecord(e.info.workflow, e.info.interval_minutes))]
    ELSE IF "schedule_time" \notin DOMAIN e.info THEN [st EXCEPT !.ret = "KeyError"]
    ELSE IF ~AtAccepts(e.info.schedule_time) THEN [st EXCEPT !.ret = "ScheduleValueError"]
    ELSE LET name == IF Falsy(e.name)
                     THEN AutoName("workflow_", Cardinality(DOMAIN st.scheduled_jobs) + 1)
                     ELSE e.name
         IN  [st EXCEPT
                !.jobs = Append(@, NewTimer(Min(st.ids), name, e.info.workflow, "days", 1,
                                            AtTime(e.info.schedule_time))),
                !.ids = @ \ {Min(st.ids)},
                !.scheduled_jobs =
                    Put(@, name, DailyRecord(e.info.workflow, e.info.schedule_time,
                                             Get(e.info, "repeat", FALSE)))]

\* `for job_name, job_info in schedule_data.items():` up to the first
\* exception.
RECURSIVE LoadJobs(_, _)
LoadJobs(entries, st) ==
    IF entries = <<>> \/ st.ret # "None" THEN st
    ELSE LoadJobs(Tail(entries), LoadEntry(st, Head(entries)))

\* load_schedule(filepath) of a file with content f.
load_schedule(f) ==
    /\ admin = "ready"
    /\ Cardinality(FreshIds) >= Len(f.entries)
    /\ IF f.kind = "none"
       THEN /\ ret' = "FileNotFoundError"
            /\ UNCHANGED <<scheduled_jobs, jobs, nextId>>
       ELSE IF f.kind = "garbage"
       THEN /\ ret' = "JSONDecodeError"
            /\ UNCHANGED <<scheduled_jobs, jobs, nextId>>
       ELSE LET st == IF f.kind = "list" THEN [Cleared EXCEPT !.ret = "AttributeError"]
                      ELSE LoadJobs(f.entries, Cleared)
            IN  /\ scheduled_jobs' = st.scheduled_jobs
                /\ jobs' = st.jobs
                /\ ret' = st.ret
                /\ nextId' = 1 + Max(HeldIds \cup {0} \cup
                                     {st.jobs[i].id : i \in 1..Len(st.jobs)})
    /\ UNCHANGED <<now, faults, peer, join_on, checks, execVars, running, scheduler_thread, loop, admin, disk>>

\* ------------------------------------- a second WorkflowScheduler instance
\* A timer entry made by the second WorkflowScheduler: its job_function is
\* bound to that instance (history field owner).
PeerTimer(id, job_name, workflow, interval_minutes) ==
    NewTimer(id, job_name, workflow, "minutes", interval_minutes, 0) @@ [owner |-> "peer"]

\* The timer entry was made by the second WorkflowScheduler.
OfPeer(timer) == "owner" \in DOMAIN timer

\* schedule_interval_workflow(workflow, interval_minutes, job_name) on the
\* second instance: the record goes to its own scheduled_jobs, the timer
\* entry to the list of the `schedule` module, which the process shares.
PeerScheduleInterval(workflow, interval_minutes, job_name) ==
    /\ nextId <= MaxTimers
    /\ jobs' = Append(jobs, PeerTimer(nextId, job_name, workflow, interval_minutes))
    /\ nextId' = nextId + 1
    /\ peer' = Put(peer, job_name, IntervalRecord(workflow, interval_minutes))
    /\ UNCHANGED <<now, faults, join_on, checks, execVars, scheduled_jobs, running,
                   scheduler_thread, loop, admin, ret, disk>>

\* remove_job(job_name) on the second instance.
PeerRemoveJob(job_name) ==
    /\ jobs' = ClearTag(job_name)
    /\ peer' = [n \in DOMAIN peer \ {job_name} |-> peer[n]]
    /\ UNCHANGED <<now, faults, join_on, checks, execVars, scheduled_jobs, nextId, running,
                   scheduler_thread, loop, admin, ret, disk>>

\* Time passes: a second.
Advance ==
    /\ now < MaxTime
    /\ now' = now + 1
    /\ UNCHANGED <<faults, peer, join_on, checks, execVars, schedVars>>

\* Time passes: a minute.
AdvanceMinute ==
    /\ now + SecondsPerMinute <= MaxTime
    /\ now' = now + SecondsPerMinute
    /\ UNCHANGED <<faults, peer, join_on, checks, execVars, schedVars>>

\* Days that pass after the first one.
MaxDays == 1

\* Time passes: a day.
AdvanceDay ==
    /\ now + SecondsPerDay <= MaxDays * SecondsPerDay + MaxTime
    /\ now' = now + SecondsPerDay
    /\ UNCHANGED <<faults, peer, join_on, checks, execVars, schedVars>>

\* The scheduler's state after WorkflowScheduler.__init__.
InitSched ==
    /\ scheduled_jobs = <<>>
    /\ jobs = <<>>
    /\ nextId = 1
    /\ running = FALSE
    /\ scheduler_thread = NoThread
    /\ loop = [t \in Threads |-> NoLoop]
    /\ admin = "ready"
    /\ ret = "None"
    /\ disk = NoFile
    /\ peer = NoPeer
    /\ join_on = NoThread

InitExec ==
    /\ now = 0
    /\ browser_type \in {"playwright", "selenium"}
    /\ faults = AllFaults
    /\ engine = NoEngine
    /\ engines = [r \in Runs |-> NewEngine(browser_type)]
    /\ pc = [r \in Runs |-> "idle"]
    /\ wf = [r \in Runs |-> NoWorkflow]
    /\ stepi = [r \in Runs |-> 1]
    /\ results = [r \in Runs |-> NoResults]
    /\ calls = [r \in Runs |-> <<>>]
    /\ hist = [r \in Runs |-> NoHist]
    /\ checks = [r \in Runs |-> <<>>]
    /\ InitSched

\* Direct callers of one executor (cli.py execute, the web interface).
Callers == {1}

NextExec ==
    \E r \in Callers :
        \/ \E w \in Workflows : ExecuteWorkflow(r, w)
        \/ InitializeBrowser(r)
        \/ StartBrowserDone(r)
        \/ ExecuteStep(r)
        \/ Finally(r)
        \/ Complete(r)

SpecExec == InitExec /\ [][NextExec]_vars

\* ------------------------------------------------------ the scheduler at work
\* Workflows given to the scheduler.
SchedWorkflows ==
    { [name |-> "A", steps |->
          <<MkStep("navigate", "https://example.com", Absent, Absent, Absent, Absent)>>] }

\* Job names a caller passes; Absent asks for a generated name.
NameArgs == {"a", "b"}

\* interval_minutes a caller passes.
IntervalArgs == {1}

\* schedule_time strings a caller passes.
TimeArgs == {HHMM(0, 1)}

Init ==
    /\ now = 0
    /\ browser_type = "playwright"
    /\ faults = {"raise_launch", "raise_step", "raise_stop"}
    /\ engine = NoEngine
    /\ engines = [r \in Runs |-> NewEngine(browser_type)]
    /\ pc = [r \in Runs |-> "idle"]
    /\ wf = [r \in Runs |-> NoWorkflow]
    /\ stepi = [r \in Runs |-> 1]
    /\ results = [r \in Runs |-> NoResults]
    /\ calls = [r \in Runs |-> <<>>]
    /\ hist = [r \in Runs |-> NoHist]
    /\ checks = [r \in Runs |-> <<>>]
    /\ InitSched

Next ==
    \/ \E w \in SchedWorkflows, ts \in TimeArgs, n \in NameArgs, rep \in BOOLEAN :
          schedule_workflow(w, ts, n, rep)
    \/ \E w \in SchedWorkflows, m \in IntervalArgs, n \in NameArgs :
          schedule_interval_workflow(w, m, n)
    \/ \E n \in Registered \cup {"nonexistent"} : remove_job(n)
    \/ start_scheduler
    \/ stop_scheduler
    \/ JoinReturns
    \/ \E t \in Threads :
          \/ Tick(t)
          \/ Dispatch(t)
          \/ InitializeBrowser(t)
          \/ StartBrowserDone(t)
          \/ ExecuteStep(t)
          \/ Finally(t)
          \/ JobDone(t)
    \/ AdvanceMinute

Spec == Init /\ [][Next]_vars

\* --------------------------------------------------- generate_and_execute
\* Steps a generated workflow is made of: well-formed ones, ones that lack
\* a parameter or carry an empty one, one of an unknown action and one
\* without action.
GenSteps ==
    { MkStep("navigate", "https://example.com", Absent, Absent, Absent, Absent),
      MkStep("navigate", "", Absent, Absent, Absent, Absent),
      MkStep("navigate", Absent, Absent, Absent, Absent, Absent),
      MkStep("type", Absent, "#q", "hello", Absent, Absent),
      MkStep("type", Absent, "#q", Absent, Absent, Absent),
      MkStep("click", Absent, Absent, Absent, Absent, Absent),
      MkStep("hover", Absent, "#q", Absent, Absent, Absent),
      MkStep(Absent, Absent, Absent, Absent, Absent, Absent) }

\* What the generator can hand to validate_workflow.
Generated ==
    {MkWorkflow(n, d, "list", st) :
        n \in {"T1", "", Absent}, d \in {"d", "", Absent},
        st \in SeqsUpTo(GenSteps, MaxSteps)}
    \cup {MkWorkflow("T1", "d", k, <<>>) : k \in {Absent, "dict"}}

NextGen ==
    \E r \in Callers :
        \/ \E w \in Generated : GenerateAndExecute(r, w)
        \/ ValidateAgain(r)
        \/ RejectDone(r)
        \/ InitializeBrowser(r)
        \/ StartBrowserDone(r)
        \/ ExecuteStep(r)
        \/ Finally(r)
        \/ GenerateDone(r)

SpecGen == Init /\ [][NextGen]_vars

\* ------------------------------------------- two runs on one WorkflowExecutor
\* Workflows two overlapping callers of the shared executor pass.
SharedWorkflows ==
    { [name |-> "T1", steps |-> s] :
        s \in { <<>>, <<MkStep("navigate", "https://example.com", Absent, Absent, Absent, Absent)>> } }

\* Two requests are served on one event loop: each `await` of one run lets
\* the other run go on.
NextShared ==
    \E r \in Runs :
        \/ \E w \in SharedWorkflows : ExecuteWorkflow(r, w)
        \/ InitializeBrowser(r)
        \/ StartBrowserDone(r)
        \/ ExecuteStep(r)
        \/ Finally(r)
        \/ Complete(r)

SpecShared == Init /\ [][NextShared]_vars

\* ---------------------------------------------- _execute_step on any step
\* Steps execute_workflow can be handed without admission: those of a
\* generated workflow, steps of every action with a parameter missing or
\* empty, and screenshot steps with and without path.
CheckedSteps ==
    GenSteps \cup
    { MkStep("screenshot", Absent, Absent, Absent, Absent, "s.png"),
      MkStep("screenshot", Absent, Absent, Absent, Absent, Absent),
      MkStep("click", Absent, "#b", Absent, Absent, Absent),
      MkStep("click", Absent, "", Absent, Absent, Absent),
      MkStep("type", Absent, Absent, "hello", Absent, Absent),
      MkStep("type", Absent, "#q", "", Absent, Absent),
      MkStep("wait", Absent, Absent, Absent, Absent, Absent),
      MkStep("wait", Absent, "#b", Absent, Absent, Absent),
      MkStep("get_text", Absent, Absent, Absent, Absent, Absent),
      MkStep("get_text", Absent, "", Absent, "k", Absent) }

CheckedWorkflows == {[name |-> "T1", steps |-> s] : s \in SeqsUpTo(CheckedSteps, MaxSteps)}

NextSteps ==
    \E r \in Callers :
        \/ \E w \in CheckedWorkflows : ExecuteWorkflow(r, w)
        \/ InitializeBrowser(r)
        \/ StartBrowserDone(r)
        \/ ExecuteStep(r)
        \/ Finally(r)
        \/ Complete(r)

SpecSteps == Init /\ [][NextSteps]_vars

\* ------------------------------------------------------- runs that extract
\* Longest workflow of get_text steps a caller passes.
MaxExtractions == 3

\* get_text steps: without key, with a key of the caller's own, and with a
\* key that has the form of a default key.
ExtractSteps ==
    { MkStep("get_text", Absent, "h1", Absent, k, Absent) : k \in {Absent, "k", "text_1"} }

ExtractWorkflows ==
    {[name |-> "T1", steps |-> s] : s \in SeqsUpTo(ExtractSteps, MaxExtractions)}

NextExtract ==
    \E r \in Callers :
        \/ \E w \in ExtractWorkflows : ExecuteWorkflow(r, w)
        \/ InitializeBrowser(r)
        \/ StartBrowserDone(r)
        \/ ExecuteStep(r)
        \/ Finally(r)
        \/ Complete(r)

SpecExtract == Init /\ [][NextExtract]_vars

\* ------------------------------------------------- runs that are interrupted
\* execute_workflow under asyncio.run (cli.py) or in a request task: the run
\* can be interrupted while it waits for the browser.
NextInterrupt ==
    \E r \in Callers :
        \/ \E w \in Workflows : ExecuteWorkflow(r, w)
        \/ InitializeBrowser(r)
        \/ StartBrowserDone(r)
        \/ ExecuteStep(r)
        \/ Interrupted(r)
        \/ Finally(r)
        \/ Complete(r)

SpecInterrupt == Init /\ [][NextInterrupt]_vars

\* ------------------------------------------- a name registered a second time
\* Two workflows a caller registers under one job name, one after the other.
ReregWorkflows ==
    { [name |-> "A", steps |->
          <<MkStep("navigate", "https://example.com", Absent, Absent, Absent, Absent)>>],
      [name |-> "B", steps |->
          <<MkStep("screenshot", Absent, Absent, Absent, Absent, "s.png")>>] }

\* The loop runs while an administrative caller registers, removes and
\* registers again; the caller registers the name only while it is free.
NextRereg ==
    \/ /\ "a" \notin Registered
       /\ \E w \in ReregWorkflows, m \in IntervalArgs : schedule_interval_workflow(w, m, "a")
    \/ remove_job("a")
    \/ start_scheduler
    \/ \E t \in Threads :
          \/ Tick(t)
          \/ Dispatch(t)
          \/ InitializeBrowser(t)
          \/ StartBrowserDone(t)
          \/ ExecuteStep(t)
          \/ Finally(t)
          \/ JobDone(t)
    \/ AdvanceMinute

SpecRereg == Init /\ [][NextRereg]_vars

\* ------------------------------------------------ daily jobs over several days
\* One job name, registered for a time of day; the loop runs while minutes
\* and days pass.
NextDaily ==
    \/ \E w \in SchedWorkflows, ts \in TimeArgs, rep \in BOOLEAN :
          schedule_workflow(w, ts, "a", rep)
    \/ start_scheduler
    \/ \E t \in Threads :
          \/ Tick(t)
          \/ Dispatch(t)
          \/ InitializeBrowser(t)
          \/ StartBrowserDone(t)
          \/ ExecuteStep(t)
          \/ Finally(t)
          \/ JobDone(t)
    \/ AdvanceMinute
    \/ AdvanceDay

SpecDaily == Init /\ [][NextDaily]_vars

\* ------------------------------------------------------------ schedule files
\* Files that were not written by save_schedule: a missing file, a file
\* that is no JSON, a JSON list, a schedule whose second job lacks the
\* workflow, one whose second job has a malformed time, and a valid one
\* written by hand.
ExternalFiles ==
    LET A == CHOOSE w \in SchedWorkflows : TRUE
        x == [name |-> "x", info |-> [workflow |-> A, interval_minutes |-> 1]]
    IN  { File("none", <<>>, <<>>), File("garbage", <<>>, <<>>), File("list", <<>>, <<>>),
          File("json", <<x, [name |-> "y", info |-> [schedule_time |-> HHMM(0, 1)]]>>, <<>>),
          File("json", <<x, [name |-> "y", info |->
                               [workflow |-> A, schedule_time |-> <<"xx", "00">>]]>>, <<>>),
          File("json", <<[name |-> "y", info |->
                               [workflow |-> A, schedule_time |-> HHMM(0, 1)]]>>, <<>>) }

NextPersist ==
    \/ \E w \in SchedWorkflows, ts \in TimeArgs, n \in NameArgs, rep \in BOOLEAN :
          schedule_workflow(w, ts, n, rep)
    \/ \E w \in SchedWorkflows, m \in IntervalArgs, n \in NameArgs :
          schedule_interval_workflow(w, m, n)
    \/ save_schedule
    \/ \E f \in ExternalFiles \cup {disk} : load_schedule(f)
    \/ AdvanceMinute

SpecPersist == Init /\ [][NextPersist]_vars

\* ------------------------------------------ two schedulers in one process
\* Two WorkflowScheduler instances of one process schedule, remove and load;
\* each caller registers a name only while it is free in its own registry
\* and removes only its own jobs.
NextPeers ==
    \/ \E w \in SchedWorkflows, m \in IntervalArgs, n \in NameArgs :
          /\ n \notin Registered
          /\ schedule_interval_workflow(w, m, n)
    \/ \E n \in Registered : remove_job(n)
    \/ \E f \in ExternalFiles : load_schedule(f)
    \/ \E w \in SchedWorkflows, m \in IntervalArgs, n \in NameArgs :
          /\ n \notin DOMAIN peer
          /\ PeerScheduleInterval(w, m, n)
    \/ \E n \in DOMAIN peer : PeerRemoveJob(n)
    \/ AdvanceMinute

SpecPeers == Init /\ [][NextPeers]_vars

\* ------------------------------------------------- generated job names
\* Job names a caller passes: none (a name is generated), or a name of its
\* own choice that has the form of a generated one.
AutoNameArgs == {Absent, "workflow_2", "interval_workflow_2"}

NextAuto ==
    \/ \E w \in SchedWorkflows, ts \in TimeArgs, n \in AutoNameArgs, rep \in BOOLEAN :
          schedule_workflow(w, ts, n, rep)
    \/ \E w \in SchedWorkflows, m \in IntervalArgs, n \in AutoNameArgs :
          schedule_interval_workflow(w, m, n)
    \/ \E n \in Registered : remove_job(n)
    \/ AdvanceMinute

SpecAuto == Init /\ [][NextAuto]_vars

\* ------------------------------------------------- a run that does not end
\* The job whose run may take arbitrarily long (a wait step's timeout is
\* the caller's; there is no deadline for a workflow).
SlowJob == "a"

\* Thread t is inside the run of a job other than SlowJob.
InPromptRun(t) == loop[t].st = "job" /\ loop[t].cur.tag # SlowJob

\* Interval jobs under free names, one loop thread, minutes pass.
NextSlow ==
    \/ \E w \in SchedWorkflows, m \in IntervalArgs, n \in NameArgs :
          /\ n \notin Registered
          /\ schedule_interval_workflow(w, m, n)
    \/ start_scheduler
    \/ \E t \in Threads :
          \/ Tick(t)
          \/ Dispatch(t)
          \/ InitializeBrowser(t)
          \/ StartBrowserDone(t)
          \/ ExecuteStep(t)
          \/ Finally(t)
          \/ JobDone(t)
    \/ AdvanceMinute

\* The loop thread is scheduled whenever it can take a step (it sleeps one
\* second between ticks and calls the collected entries one after the
\* other); the browser answers every run except, possibly, SlowJob's.
FairSlow ==
    \A t \in Threads :
        /\ WF_vars(Tick(t))
        /\ WF_vars(Dispatch(t))
        /\ WF_vars(JobDone(t))
        /\ WF_vars(InPromptRun(t) /\ InitializeBrowser(t))
        /\ WF_vars(InPromptRun(t) /\ StartBrowserDone(t))
        /\ WF_vars(InPromptRun(t) /\ ExecuteStep(t))
        /\ WF_vars(InPromptRun(t) /\ Finally(t))

SpecSlow == Init /\ [][NextSlow]_vars /\ FairSlow

\* ------------------------------------------- callers of start and stop
\* One caller starts and stops the scheduler; a second one may call
\* start_scheduler while the first is inside stop_scheduler's join(). One
\* interval job is registered so that a run can be in flight.
NextCallers ==
    \/ /\ "a" \notin Registered
       /\ \E w \in SchedWorkflows, m \in IntervalArgs : schedule_interval_workflow(w, m, "a")
    \/ start_scheduler
    \/ stop_scheduler
    \/ StartWhileJoining
    \/ JoinReturns
    \/ \E t \in Threads :
          \/ Tick(t)
          \/ Dispatch(t)
          \/ InitializeBrowser(t)
          \/ StartBrowserDone(t)
          \/ ExecuteStep(t)
          \/ Finally(t)
          \/ JobDone(t)
    \/ AdvanceMinute

\* Every loop thread is scheduled whenever it can take a step, every run in
\* flight goes on to its end, and join() returns once its thread has
\* exited. Nothing obliges a caller to call start or stop.
FairCallers ==
    /\ WF_vars(JoinReturns)
    /\ \A t \in Threads :
          /\ WF_vars(Tick(t))
          /\ WF_vars(Dispatch(t))
          /\ WF_vars(InitializeBrowser(t))
          /\ WF_vars(StartBrowserDone(t))
          /\ WF_vars(ExecuteStep(t))
          /\ WF_vars(Finally(t))
          /\ WF_vars(JobDone(t))

SpecCallers == Init /\ [][NextCallers]_vars /\ FairCallers

\* ------------------------------------------------- the registration interface
\* Workflows given to the scheduling calls.
RegWorkflows ==
    SchedWorkflows \cup
    { [name |-> "B", steps |->
          <<MkStep("screenshot", Absent, Absent, Absent, Absent, "s.png")>>] }

\* Job names a caller passes; Absent asks for a generated name.
RegNameArgs == {"a", Absent}

\* schedule_time strings that are no time of day: "0900", "xx:00", "99:00".
MalformedTimeArgs == {<<"0900">>, <<"xx", "00">>, <<"99", "00">>}

\* schedule_time strings a caller passes: every HH:MM of the day, an
\* HH:MM:SS, and strings that are no time of day.
RegTimeArgs ==
    {HHMM(h, m) : h \in 0..(HoursPerDay - 1), m \in 0..(MinutesPerHour - 1)}
    \cup {<<"00", "01", "01">>} \cup MalformedTimeArgs

RegIntervalArgs == {1, 2}

NextReg ==
    \/ \E w \in RegWorkflows, ts \in RegTimeArgs, n \in RegNameArgs, rep \in BOOLEAN :
          schedule_workflow(w, ts, n, rep)
    \/ \E w \in RegWorkflows, m \in RegIntervalArgs, n \in RegNameArgs :
          schedule_interval_workflow(w, m, n)
    \/ \E n \in Registered \cup {"nonexistent"} : remove_job(n)
    \/ Advance

SpecReg == Init /\ [][NextReg]_vars

\* ------------------------------------------------ claims on execute_workflow
\* The run has left the try block: its outcome is settled.
Ended(r) == pc[r] \in {"returned", "raised"}

\* Steps 1..k-1 completed and step k raised.
FirstFailureAt(r, k) ==
    /\ Len(hist[r].steps) >= k
    /\ hist[r].steps[k] = "fail"
    /\ \A j \in 1..(k - 1) : hist[r].steps[j] = "ok"

\* Capability operations of run r that belong to a step (not start or close).
StepCalls(r) == {n \in 1..Len(calls[r]) : calls[r][n][2] > 0}

\* C1: when steps 1..k-1 succeed and step k is the first to fail, the run
\* ends with steps_executed = k-1, success false and exactly one error, and
\* no capability operation was invoked for a step after k.
C1_FailFast ==
    \A r \in Runs : \A k \in 1..Len(wf[r].steps) :
        (pc[r] \in {"finally", "returned", "raised"} /\ FirstFailureAt(r, k)) =>
            /\ results[r].steps_executed = k - 1
            /\ results[r].success = FALSE
            /\ Len(results[r].errors) = 1
            /\ Len(hist[r].steps) = k
            /\ \A n \in StepCalls(r) : calls[r][n][2] <= k

C1_Witness ==
    \E r \in Runs :
        /\ pc[r] = "returned"
        /\ Len(wf[r].steps) = MaxSteps
        /\ FirstFailureAt(r, 1)

\* C2: when session start and all N steps succeed, the returned result has
\* steps_executed = N = total_steps, success true and no errors.
C2_AllSucceed ==
    \A r \in Runs :
        (/\ pc[r] = "returned"
         /\ hist[r].start = "ok"
         /\ Len(hist[r].steps) = Len(wf[r].steps)
         /\ \A j \in 1..Len(hist[r].steps) : hist[r].steps[j] = "ok") =>
            /\ results[r].steps_executed = Len(wf[r].steps)
            /\ results[r].total_steps = Len(wf[r].steps)
            /\ results[r].success = TRUE
            /\ results[r].errors = <<>>

C2_Witness ==
    \E r \in Runs :
        /\ pc[r] = "returned"
        /\ hist[r].start = "ok"
        /\ Len(wf[r].steps) = MaxSteps
        /\ Len(hist[r].steps) = MaxSteps
        /\ \A j \in 1..MaxSteps : hist[r].steps[j] = "ok"

\* C3: a run that was started never raises to its caller (not after a step
\* failure, not when close itself fails), and a returned result carries
\* an end timestamp.
C3_NeverRaises ==
    \A r \in Runs :
        /\ pc[r] # "raised"
        /\ pc[r] = "returned" => results[r].end_time # NoTime

\* C4: in every run start is invoked exactly once, before any step, and
\* close exactly once, after the last attempted step, on every exit path.
C4_StartCloseOnce ==
    \A r \in Runs :
        LET c == calls[r]
            starts == {n \in 1..Len(c) : c[n][1] = "start_browser"}
            closes == {n \in 1..Len(c) : c[n][1] = "close_browser"}
        IN  /\ pc[r] \in {"starting", "steps", "finally"} => (starts = {1} /\ closes = {})
            /\ Ended(r) => (starts = {1} /\ closes = {Len(c)} /\ Len(c) >= 2)
            /\ StepCalls(r) # {} => starts = {1}

C4_Witness ==
    \E r \in Runs :
        /\ Ended(r)
        /\ hist[r].start = "ok"
        /\ \E k \in 1..MaxSteps : FirstFailureAt(r, k) /\ k > 1

\* C5 as stated: when start raises, execute_workflow raises to its caller
\* instead of returning a result with success false.
C5_StartFailureRaises ==
    \A r \in Runs :
        (Ended(r) /\ hist[r].start \notin {Absent, "ok"}) => pc[r] = "raised"

\* C5 amended: when start raises, no step is attempted and the failure is
\* recorded in the result (success false, one "Workflow execution failed"
\* error, steps_executed 0); the result is returned to the caller, and an
\* error surfaces only when close_browser itself raises.
C5_StartFailureRecorded ==
    \A r \in Runs :
        (pc[r] \in {"finally", "returned", "raised"} /\ hist[r].start \notin {Absent, "ok"}) =>
            /\ results[r].success = FALSE
            /\ Len(results[r].errors) = 1
            /\ results[r].errors[1][1] = "Workflow execution failed"
            /\ results[r].steps_executed = 0
            /\ StepCalls(r) = {}
            /\ hist[r].steps = <<>>
            /\ pc[r] = "raised" => hist[r].close \notin {Absent, "ok"}
            /\ pc[r] = "returned" => (hist[r].close = "ok" /\ results[r].end_time # NoTime)

C5_Witness ==
    \E r \in Runs :
        /\ pc[r] = "returned"
        /\ hist[r].start \notin {Absent, "ok"}
        /\ Len(wf[r].steps) > 0

\* ------------------------------------------------ claims on the scheduler loop
\* The loop threads that are inside a run of the job of this name.
InFlight(name) == {t \in Threads : loop[t].st = "job" /\ loop[t].cur.tag = name}

\* C6: at every moment at most one run per job is in flight: no tick
\* dispatches a job whose previous dispatch has not yet completed.
C6_OneInFlightPerJob ==
    \A t \in Threads :
        loop[t].st = "job" => Cardinality(InFlight(loop[t].cur.tag)) = 1

\* A run is in flight, time has passed since it began, and its timer entry
\* is registered and due all the while.
C6_Witness ==
    \E t \in Threads : \E n \in 1..Len(jobs) :
        /\ running
        /\ loop[t].st = "job"
        /\ pc[t] = "steps"
        /\ results[t].start_time < now
        /\ jobs[n].id = loop[t].cur.id
        /\ ShouldRun(jobs[n])

\* C7: while a run it dispatched is still executing, the loop thread has
\* completed its scan and is back at sleeping between ticks.
C7_TickDoesNotWait ==
    \A t \in Threads :
        pc[t] \in {"init", "starting", "steps", "finally"} => loop[t].st = "sleep"

\* The first scan at or after created + interval has been made and the
\* tick it belongs to is over.
FirstDueTickOver(timer) ==
    /\ timer.due_scans = 1
    /\ \A t \in Threads : loop[t].st \in {"none", "sleep"}

\* C8: a job registered by schedule_interval_workflow at t0 with interval m
\* is dispatched by no tick before t0 + m, and the first tick at or after
\* t0 + m dispatches it exactly once.
C8_IntervalFirstDispatch ==
    \A n \in 1..Len(jobs) :
        jobs[n].unit = "minutes" =>
            /\ now < jobs[n].created + jobs[n].interval * SecondsPerMinute
                    => jobs[n].dispatches = 0
            /\ jobs[n].due_scans = 0 => jobs[n].dispatches = 0
            /\ jobs[n].due_scans = 1 => jobs[n].dispatches <= 1
            /\ FirstDueTickOver(jobs[n]) => jobs[n].dispatches = 1

C8_Witness ==
    \E n \in 1..Len(jobs) :
        /\ jobs[n].unit = "minutes"
        /\ jobs[n].created > 0
        /\ FirstDueTickOver(jobs[n])
        /\ jobs[n].dispatches = 1
        /\ running

\* ------------------------------------------ claims on the scheduling calls
\* Seconds into the day of a well-formed "HH:MM".
OfDay(schedule_time) ==
    PyInt(schedule_time[1]) * SecondsPerHour + PyInt(schedule_time[2]) * SecondsPerMinute

WellFormed(schedule_time) ==
    schedule_time \in {HHMM(h, m) : h \in 0..(HoursPerDay - 1), m \in 0..(MinutesPerHour - 1)}

Day(t) == t \div SecondsPerDay

\* C9: schedule_workflow stores next_run = today at t when t has not yet
\* elapsed at the time of the call, and tomorrow at t when it has.
C9_DailyNextRun ==
    \A name \in Registered :
        LET rec == scheduled_jobs[name]
            t == OfDay(rec.schedule_time)
            elapsed == t <= rec.created_at - Day(rec.created_at) * SecondsPerDay
        IN  (rec.kind = "daily" /\ WellFormed(rec.schedule_time)) =>
                rec.next_run =
                    (Day(rec.created_at) + (IF elapsed THEN 1 ELSE 0)) * SecondsPerDay + t

\* One job whose time had not elapsed and one whose time had.
C9_Witness ==
    \E n1, n2 \in Registered :
        /\ scheduled_jobs[n1].kind = "daily"
        /\ scheduled_jobs[n2].kind = "daily"
        /\ WellFormed(scheduled_jobs[n1].schedule_time)
        /\ WellFormed(scheduled_jobs[n2].schedule_time)
        /\ scheduled_jobs[n1].created_at > 0
        /\ Day(scheduled_jobs[n1].next_run) = Day(scheduled_jobs[n1].created_at)
        /\ Day(scheduled_jobs[n2].next_run) = Day(scheduled_jobs[n2].created_at) + 1

\* C10: a scheduling call with a job name that is already in the registry
\* leaves the existing job unchanged: its record and its single timer entry.
C10_DuplicateNameRejected ==
    [][\A name \in Registered :
          (\/ \E w \in RegWorkflows, ts \in RegTimeArgs, rep \in BOOLEAN :
                  schedule_workflow(w, ts, name, rep)
           \/ \E w \in RegWorkflows, m \in RegIntervalArgs :
                  schedule_interval_workflow(w, m, name))
          => (scheduled_jobs' = scheduled_jobs /\ jobs' = jobs)]_vars

\* C11: a scheduling request whose time of day cannot be parsed fails, and
\* the registry and the timer list are exactly what they were before it.
C11_MalformedTriggerRejected ==
    [][\A w \in RegWorkflows, ts \in MalformedTimeArgs, n \in RegNameArgs, rep \in BOOLEAN :
          schedule_workflow(w, ts, n, rep) =>
              /\ ret' = "ScheduleValueError"
              /\ scheduled_jobs' = scheduled_jobs
              /\ jobs' = jobs]_vars

\* A malformed request has just failed against a registry that holds a job.
C11_Witness ==
    /\ ret = "ScheduleValueError"
    /\ Registered # {}
    /\ Len(jobs) > 0

\* C12: remove_job of a name that is not registered returns false and leaves
\* the registry unchanged; of a registered name it returns true and the
\* registry no longer contains the name.
C12_RemoveJobReturn ==
    [][\A n \in Registered \cup {"nonexistent"} :
          remove_job(n) =>
              IF n \in Registered
              THEN ret' = "True" /\ n \notin DOMAIN scheduled_jobs'
              ELSE ret' = "False" /\ scheduled_jobs' = scheduled_jobs]_vars

\* ------------------------------------------ claims on the completion update
\* C13: the completion of a dispatch stores, with last_run, a freshly
\* computed next_run: the stored next_run is later than that completion.
C13_NextRunRefreshed ==
    \A name \in Registered :
        scheduled_jobs[name].last_run # NoTime =>
            scheduled_jobs[name].next_run > scheduled_jobs[name].last_run

\* C14: a run that ends with success false is recorded as the job's last
\* error and not as its last Run Result: a stored last_result is one of a
\* successful run.
C14_FailureRecordedAsError ==
    \A name \in Registered :
        scheduled_jobs[name].last_result # NoResults =>
            scheduled_jobs[name].last_result.success = TRUE

\* ------------------------------------------------------ claims on daily jobs
\* The timer entry at position n is the only one of its job, and the job's
\* record is the one stored when the entry was made.
SoleTimerOf(n) ==
    /\ jobs[n].tag \in Registered
    /\ scheduled_jobs[jobs[n].tag].kind = "daily"
    /\ scheduled_jobs[jobs[n].tag].created_at = jobs[n].created
    /\ \A k \in 1..Len(jobs) : jobs[k].tag = jobs[n].tag => k = n

\* C15: a daily job registered with repeat = false is dispatched at most
\* once.
C15_NonRepeatingFiresOnce ==
    \A n \in 1..Len(jobs) :
        (SoleTimerOf(n) /\ ~scheduled_jobs[jobs[n].tag].repeat) => jobs[n].dispatches <= 1

\* ------------------------------------------------ claims on start and stop
\* C16: stop_scheduler returns only after the loop thread has exited, so
\* that no dispatch can start after it returned; a run in flight when stop is
\* called is not aborted: the thread leaves the run only through the
\* completion update.
C16_StopWaitsForLoop ==
    /\ [](\A t \in Threads : (admin = "ready" /\ ~running) => loop[t].st = "none")
    /\ [][\A t \in Threads :
             (loop[t].st = "job" /\ loop'[t].st # "job") => JobDone(t)]_vars

\* stop_scheduler is waiting in join() while a run of a registered job goes
\* on and has come to its end.
C16_Witness ==
    \E t \in Threads :
        /\ admin = "joining"
        /\ ~running
        /\ scheduler_thread = t
        /\ loop[t].st = "job"
        /\ loop[t].cur.tag \in Registered
        /\ pc[t] = "returned"

\* C17: start_scheduler while the scheduler is running only warns: the
\* running flag, the loop thread, every thread's position, the registry and
\* the timer list stay as they are.
C17_StartWhenRunningNoOp ==
    [][(start_scheduler /\ running) =>
          /\ ret' = "already running"
          /\ UNCHANGED <<running, scheduler_thread, loop, scheduled_jobs, jobs>>]_vars

\* The second start_scheduler has just returned while the loop thread is
\* alive and a job is registered.
C17_Witness ==
    /\ ret = "already running"
    /\ running
    /\ scheduler_thread # NoThread
    /\ loop[scheduler_thread].st # "none"
    /\ Registered # {}

\* ------------------------------------------- claims on failures in a tick
\* Two interval entries of different jobs that became due together and were
\* collected by the same scan.
SameTick(n1, n2) ==
    /\ jobs[n1].tag # jobs[n2].tag
    /\ jobs[n1].unit = "minutes" /\ jobs[n2].unit = "minutes"
    /\ jobs[n1].created + Minutes(jobs[n1].interval)
          = jobs[n2].created + Minutes(jobs[n2].interval)
    /\ jobs[n1].due_scans = 1 /\ jobs[n2].due_scans = 1

\* The registry shows a failed run of the job: a result with success false
\* (a step or the session start failed) or an error (close or save failed).
FailedRun(name) ==
    /\ name \in Registered
    /\ \/ scheduled_jobs[name].last_error # Absent
       \/ ~scheduled_jobs[name].last_result.success

\* C18: when several jobs are due in the same tick, a failure in one job's
\* dispatch does not keep the others from being dispatched in that tick,
\* and it does not end the loop thread.
C18_FailureDoesNotStopTick ==
    /\ \A n1, n2 \in 1..Len(jobs) :
          (/\ SameTick(n1, n2)
           /\ FailedRun(jobs[n1].tag)
           /\ \A t \in Threads : loop[t].st \in {"none", "sleep"})
              => jobs[n2].dispatches = 1
    /\ running => loop[scheduler_thread].st # "none"

\* The first of two jobs due together failed, the second was dispatched
\* after it, and the loop thread is back at sleeping.
C18_Witness ==
    \E n1, n2 \in 1..Len(jobs) :
        /\ n1 < n2
        /\ SameTick(n1, n2)
        /\ FailedRun(jobs[n1].tag)
        /\ jobs[n1].dispatches = 1
        /\ jobs[n2].dispatches = 1
        /\ running
        /\ loop[scheduler_thread].st = "sleep"

\* ------------------------------------------------- claims on schedule files
\* The trigger spec and the workflow of a record.
RecordTrigger(rec) ==
    IF rec.kind = "interval"
    THEN <<"interval", rec.interval_minutes, rec.workflow>>
    ELSE <<"daily", rec.schedule_time, rec.repeat, rec.workflow>>

\* C19: load_schedule of the file save_schedule wrote succeeds and yields a
\* registry with the job names the registry had when it was saved, each
\* with the same trigger spec and workflow and with exactly one timer entry,
\* and with next_run computed from the clock at the time of the load.
C19_SaveLoadRoundTrip ==
    [][(load_schedule(disk) /\ disk.kind = "json") =>
          /\ ret' = "None"
          /\ DOMAIN scheduled_jobs' = DOMAIN disk.origin
          /\ \A name \in DOMAIN disk.origin :
                /\ RecordTrigger(scheduled_jobs'[name]) = RecordTrigger(disk.origin[name])
                /\ Cardinality({i \in 1..Len(jobs') : jobs'[i].tag = name}) = 1
                /\ scheduled_jobs'[name].next_run =
                      IF disk.origin[name].kind = "interval"
                      THEN now + Minutes(disk.origin[name].interval_minutes)
                      ELSE _get_next_run_time(disk.origin[name].schedule_time)]_vars

\* A registry of a daily and an interval job was saved and, after time has
\* passed, loaded again: the next_run of a job is no longer the saved one.
C19_Witness ==
    /\ disk.kind = "json"
    /\ ret = "None"
    /\ Cardinality(DOMAIN disk.origin) = 2
    /\ Registered = DOMAIN disk.origin
    /\ \E n1, n2 \in Registered :
          /\ scheduled_jobs[n1].kind = "daily" /\ scheduled_jobs[n1].repeat
          /\ scheduled_jobs[n2].kind = "interval"
          /\ scheduled_jobs[n2].created_at > disk.origin[n2].created_at
          /\ scheduled_jobs[n2].next_run # disk.origin[n2].next_run

\* C20: a load_schedule that fails leaves the registry and the timer list
\* as they were before the call.
C20_FailedLoadKeepsRegistry ==
    [][\A f \in ExternalFiles \cup {disk} :
          (load_schedule(f) /\ ret' # "None") =>
              (scheduled_jobs' = scheduled_jobs /\ jobs' = jobs)]_vars

\* ------------------------------------------------------ claims on admission
\* The workflow has a type step that carries no text.
TypeWithoutText(w) ==
    /\ w.steps_is = "list"
    /\ \E i \in 1..Len(w.steps) : w.steps[i].action = "type" /\ w.steps[i].text = Absent

\* C21: a workflow with a type step that lacks text is rejected at
\* admission: on the generate_and_execute path it is never executed and the
\* capability's start is never invoked for it.
C21_TypeWithoutTextRejected ==
    \A r \in Runs :
        (pc[r] # "idle" /\ TypeWithoutText(wf[r])) => (pc[r] = "invalid" /\ calls[r] = <<>>)

\* The parameters a step's action requires are present.
CarriesRequired(step) ==
    /\ step.action = "navigate" => step.url # Absent
    /\ step.action \in {"click", "type", "wait", "get_text"} => step.selector # Absent
    /\ step.action = "type" => step.text # Absent

\* The admission rule: name and description present and non-empty, steps a
\* list, every step of a known action and with its required parameters.
Admissible(w) ==
    /\ w.name \notin {Absent, ""}
    /\ w.description \notin {Absent, ""}
    /\ w.steps_is = "list"
    /\ \A i \in 1..Len(w.steps) :
          w.steps[i].action \in ValidActions /\ CarriesRequired(w.steps[i])

\* C22: validate_workflow accepts a workflow exactly when it is admissible.
C22_ValidateExactly ==
    \A r \in Runs :
        (pc[r] # "idle" /\ checks[r] # <<>>) => (checks[r][1][1] <=> Admissible(wf[r]))

C24_OwnSessionOnly ==
    \A r \in Runs :
        /\ \A n \in 1..Len(calls[r]) : calls[r][n][3] = r
        /\ (pc[r] \in {"returned", "raised"} /\ calls[r] # <<>>) =>
               \E n \in 1..Len(calls[r]) : calls[r][n] = <<"close_browser", 0, r>>

\* -------------------------------------------------- claims on _execute_step
\* The step lacks a parameter its action requires, or carries it empty, or
\* its action is not a known one.
BadStep(step) ==
    \/ step.action \notin ValidActions
    \/ step.action = "navigate" /\ step.url \in {Absent, ""}
    \/ step.action \in {"click", "wait", "get_text", "type"} /\ step.selector \in {Absent, ""}
    \/ step.action = "type" /\ step.text \in {Absent, ""}

\* C25: a step whose required parameter is absent or empty, or whose action
\* is unknown, fails in _execute_step before any capability operation is
\* invoked for it: the step is recorded as failed with _execute_step's own
\* message and no capability call carries its index.
C25_BadStepFailsBeforeCapability ==
    \A r \in Runs : \A i \in 1..Len(hist[r].steps) :
        BadStep(wf[r].steps[i]) =>
            /\ hist[r].steps[i] = "fail"
            /\ \A n \in 1..Len(calls[r]) : calls[r][n][2] # i
            /\ \E n \in 1..Len(results[r].errors) :
                  /\ results[r].errors[n][1] = "Step failed"
                  /\ results[r].errors[n][2] = i
                  /\ results[r].errors[n][3] # "capability"

\* A run whose first step completed and whose second step, with an empty
\* selector, was refused has returned.
C25_Witness ==
    \E r \in Runs :
        /\ pc[r] = "returned"
        /\ hist[r].steps = <<"ok", "fail">>
        /\ wf[r].steps[2].action = "click" /\ wf[r].steps[2].selector = ""
        /\ Len(calls[r]) = 3

\* ------------------------------------------------- claims on extracted data
\* The step run r is about to execute is a get_text step, and it completes.
ExtractionCompletes(r) ==
    /\ pc[r] = "steps"
    /\ wf[r].steps[stepi[r]].action = "get_text"
    /\ hist'[r].steps = Append(hist[r].steps, "ok")

\* The number of get_text steps of run r that have completed.
PriorExtractions(r) ==
    Cardinality({j \in 1..Len(hist[r].steps) :
                    wf[r].steps[j].action = "get_text" /\ hist[r].steps[j] = "ok"})

\* C27: a get_text step that completes stores its text under its explicit
\* key, or, when it has none, under text_n with n the number of get_text
\* steps that completed earlier in the run.
C27_ExtractionKey ==
    [][\A r \in Runs :
          ExtractionCompletes(r) =>
              LET step == wf[r].steps[stepi[r]]
                  key == IF step.key # Absent THEN step.key
                         ELSE DefaultKey(PriorExtractions(r))
              IN  results'[r].extracted_data =
                      DictPut(results[r].extracted_data, key, "text")]_vars

\* C28: a get_text step without explicit key that completes never stores
\* under a key extracted_data already holds: the dict grows by one entry.
C28_DefaultKeyFresh ==
    [][\A r \in Runs :
          (ExtractionCompletes(r) /\ wf[r].steps[stepi[r]].key = Absent) =>
              /\ \A p \in results[r].extracted_data :
                    p[1] # DefaultKey(Cardinality(results[r].extracted_data))
              /\ Cardinality(results'[r].extracted_data) =
                    Cardinality(results[r].extracted_data) + 1]_vars

\* ---------------------------------------------------- claims on screenshots
\* The path a screenshot step writes to.
PathOf(step) == IF step.path = Absent THEN "screenshot_<ts>.png" ELSE step.path

\* The paths of the screenshot steps among steps i.. that completed, in
\* step order.
RECURSIVE CompletedShots(_, _, _)
CompletedShots(steps, outcomes, i) ==
    IF i > Len(outcomes) THEN <<>>
    ELSE (IF steps[i].action = "screenshot" /\ outcomes[i] = "ok"
          THEN <<PathOf(steps[i])>> ELSE <<>>)
         \o CompletedShots(steps, outcomes, i + 1)

\* C29: in every returned result, screenshots is exactly the sequence of
\* paths of the screenshot steps that completed in that run, in step order;
\* a screenshot step that failed or was not reached contributes nothing.
C29_ScreenshotsInOrder ==
    \A r \in Runs :
        pc[r] = "returned" =>
            results[r].screenshots = CompletedShots(wf[r].steps, hist[r].steps, 1)

\* A run of two screenshot steps with different paths has returned with
\* both paths.
C29_Witness ==
    \E r \in Runs :
        /\ pc[r] = "returned"
        /\ hist[r].steps = <<"ok", "ok">>
        /\ results[r].screenshots = <<"s.png", "screenshot_<ts>.png">>

\* --------------------------------------------------- claims on step order
\* C30: within one run capability operations are invoked in the declaration
\* order of the steps: after start_browser, the call for step i is the
\* (i+1)-th call of the run, it is the operation of step i's action, and
\* every step before i has completed successfully when it is made.
C30_StepsInOrder ==
    \A r \in Runs : \A n \in StepCalls(r) :
        LET i == calls[r][n][2]
        IN  /\ n = i + 1
            /\ calls[r][1][1] = "start_browser"
            /\ calls[r][n][1] = CapabilityOp(wf[r].steps[i])
            /\ i <= Len(hist[r].steps)
            /\ \A j \in 1..(i - 1) : hist[r].steps[j] = "ok"

\* A run of two steps of different actions has returned with both
\* operations invoked and completed.
C30_Witness ==
    \E r \in Runs :
        /\ pc[r] = "returned"
        /\ hist[r].steps = <<"ok", "ok">>
        /\ Len(calls[r]) = 4
        /\ calls[r][2][1] = "get_text" /\ calls[r][3][1] = "navigate_to"

\* C26: a step of a workflow that validate_workflow accepted never fails in
\* _execute_step's own check of parameters and action: every step failure of
\* an admitted workflow is a failure of the capability call.
C26_AdmittedNeverFailsCheck ==
    \A r \in Runs :
        (checks[r] # <<>> /\ checks[r][1][1]) =>
            \A n \in 1..Len(results[r].errors) :
                results[r].errors[n][1] = "Step failed" =>
                    results[r].errors[n][3] = "capability"

\* ------------------------------------------------- claims on returned results
\* C31: every result execute_workflow returns, on every exit path (start
\* failure and interruption included), has 0 <= steps_executed <=
\* total_steps, at most one error, success true exactly when errors is
\* empty, and steps_executed = total_steps whenever success is true.
C31_ResultConsistent ==
    \A r \in Runs :
        pc[r] = "returned" =>
            /\ 0 <= results[r].steps_executed
            /\ results[r].steps_executed <= results[r].total_steps
            /\ Len(results[r].errors) <= 1
            /\ results[r].success <=> (results[r].errors = <<>>)
            /\ results[r].success => results[r].steps_executed = results[r].total_steps

\* ------------------------------------------- claims on removal during a tick
\* C32: once remove_job(name) has returned no run is dispatched for that
\* job: whenever the loop calls a collected entry, the entry is still in the
\* timer list and its job name is still in the registry.
C32_RemovedNeverDispatched ==
    [][\A t \in Threads :
          (loop[t].st = "pending" /\ loop'[t].st = "job") =>
              /\ Head(loop[t].pending).tag \in Registered
              /\ \E n \in 1..Len(jobs) : jobs[n].id = Head(loop[t].pending).id]_vars

\* ----------------------------------------- claims on the completion update
\* C33: the completion update of a dispatched run touches only the record
\* that was dispatched: it adds no name to the registry, and a record it
\* changes carries the dispatched job's name and the workflow that was run,
\* so a record registered anew under the name with another workflow does
\* not receive the old run's last_run or last_result.
C33_CompletionTouchesOwnRecord ==
    [][\A t \in Threads :
          (loop[t].st = "job" /\ loop'[t].st # "job") =>
              \A n \in DOMAIN scheduled_jobs' :
                  /\ n \in Registered
                  /\ scheduled_jobs'[n] # scheduled_jobs[n] =>
                        /\ n = loop[t].cur.tag
                        /\ scheduled_jobs[n].workflow = loop[t].cur.workflow]_vars

\* ------------------------------------------ claims on registry and timers
\* Positions of the timer list that hold an entry of the given instance
\* tagged with the name.
TimersFor(name, of_peer) ==
    {n \in 1..Len(jobs) : jobs[n].tag = name /\ (OfPeer(jobs[n]) <=> of_peer)}

\* C34: after any sequence of schedule, remove and load operations on the
\* WorkflowScheduler instances of one process, every job name in a registry
\* has exactly one timer entry of that scheduler, which runs the registered
\* workflow, and every timer entry belongs to a job in the registry of the
\* scheduler that made it.
C34_RegistryMatchesTimers ==
    /\ \A name \in Registered :
          /\ Cardinality(TimersFor(name, FALSE)) = 1
          /\ \A n \in TimersFor(name, FALSE) :
                jobs[n].workflow = scheduled_jobs[name].workflow
    /\ \A name \in DOMAIN peer :
          /\ Cardinality(TimersFor(name, TRUE)) = 1
          /\ \A n \in TimersFor(name, TRUE) : jobs[n].workflow = peer[name].workflow
    /\ \A n \in 1..Len(jobs) :
          IF OfPeer(jobs[n]) THEN jobs[n].tag \in DOMAIN peer
          ELSE jobs[n].tag \in Registered

\* ------------------------------------------------ claims on generated names
\* C35: a scheduling call without a name never generates the name of a job
\* already in the registry: it adds one job to the registry and replaces
\* none.
C35_AutoNameFresh ==
    [][(\/ \E w \in SchedWorkflows, ts \in TimeArgs, rep \in BOOLEAN :
             schedule_workflow(w, ts, Absent, rep)
        \/ \E w \in SchedWorkflows, m \in IntervalArgs :
             schedule_interval_workflow(w, m, Absent))
          => /\ ret' \notin Registered
             /\ Cardinality(DOMAIN scheduled_jobs') = Cardinality(Registered) + 1]_vars

\* ------------------------------------------------------ claims on last_error
\* C36: a job's last_error describes its most recent dispatch: no single
\* dispatch sets both last_result and last_error, and after a dispatch that
\* recorded its last_result and completed without error the job has no
\* last_error.
C36_LastErrorIsCurrent ==
    [][\A t \in Threads :
          (loop[t].st = "job" /\ loop'[t].st # "job" /\ loop[t].cur.tag \in Registered) =>
              LET name == loop[t].cur.tag
                  old == scheduled_jobs[name]
                  new == scheduled_jobs'[name]
              IN  /\ ~(new.last_result # old.last_result /\ new.last_error # old.last_error)
                  /\ (/\ pc[t] = "returned"
                      /\ scheduled_jobs' =
                            CompletionUpdate(name, "returned", results[t], TRUE, Absent))
                        => new.last_error = Absent]_vars

\* ------------------------------------------------------ claims on liveness
\* The timer entry of job name is due.
DueJob(name) ==
    /\ name \in Registered
    /\ \E n \in 1..Len(jobs) : jobs[n].tag = name /\ now >= jobs[n].next_run

\* C37: while the scheduler is running and the runs of the other jobs end,
\* each registered job whose next-run time has elapsed is eventually
\* dispatched, however long a run of another job takes.
C37_DueJobDispatched ==
    \A name \in NameArgs :
        (running /\ DueJob(name)) ~> (InFlight(name) # {} \/ ~running \/ name \notin Registered)

\* ------------------------------------------- claims on start and stop
\* C38: every call of stop_scheduler eventually returns when the run in
\* flight ends, also when another caller calls start_scheduler while
\* stop_scheduler waits for the loop thread.
C38_StopReturns == (admin = "joining") ~> (admin = "ready")

\* The loop threads that have been started and have not exited.
AliveThreads == {t \in Threads : loop[t].st # "none"}

\* C39: whatever the interleaving of start_scheduler and stop_scheduler
\* calls, at most one loop thread is alive, and the running flag is true
\* exactly when a loop thread is alive.
AtMostOneLoopThread == Cardinality(AliveThreads) <= 1

FlagMatchesThread == running <=> AliveThreads # {}

C39_OneLoopThread == AtMostOneLoopThread /\ FlagMatchesThread

====
